---- MODULE Spec2Model ----
(***************************************************************************)
(* Model of the recommendation engine of wheretoeat:                       *)
(*   src/src/data_loader.py  DataLoader (record sets, filter, pivot)       *)
(*   src/src/recommender.py  RestaurantRecommender (queries, memo state)   *)
(*                                                                         *)
(* Numbers.  The program computes in float64.  The model keeps ratings of  *)
(* rating events as integer stars, similarities as floor(SimScale * cos),  *)
(* and average / predicted ratings as integers in units of 1/RatingScale   *)
(* star.  Hybrid weights are integers in tenths (0.4 -> 4).                *)
(*                                                                         *)
(* Sorting.  np.argsort and single-key DataFrame.sort_values use the       *)
(* default kind 'quicksort', which gives no order among equal keys: the    *)
(* model takes every order of equal keys.  Python's sorted() and the       *)
(* multi-key DataFrame.sort_values are stable.                             *)
(*                                                                         *)
(* An Optional[...] attribute is a sequence: << >> is None, <<v>> is v.    *)
(***************************************************************************)
EXTENDS Integers, Sequences, FiniteSets, TLC

\* ---------------------------------------------------------------- bounds
MaxN == 2            \* queries ask for n in 0..MaxN rows
MaxK == 2            \* k_neighbors / k_similar_items in 1..MaxK
SimScale == 400      \* resolution of a similarity value
RatingScale == 1000  \* resolution of an average / predicted rating
MantissaBits == 12   \* bits of the significand of a floating-point number

\* ------------------------------------------------------ program constants
DEFAULT_MIN_REVIEWS == 5
DEFAULT_K_NEIGHBORS == 5
DEFAULT_K_SIMILAR_ITEMS == 5
DefaultWeights == <<4, 4, 2>>

None == << >>
Some(v) == <<v>>
NoFilter == ""

\* ---------------------------------------------------------------- helpers
Min(a, b) == IF a <= b THEN a ELSE b

Range(s) == {s[i] : i \in DOMAIN s}

RECURSIVE SeqSum(_)
SeqSum(s) == IF s = << >> THEN 0 ELSE Head(s) + SeqSum(Tail(s))

Reverse(s) == [i \in 1..Len(s) |-> s[Len(s) + 1 - i]]

\* s[a:b] of Python for 0 <= a, on a sequence
Slice(s, a, b) == SubSeq(s, a + 1, Min(b, Len(s)))

\* head(n) / [:n] for n >= 0
HeadN(s, n) == Slice(s, 0, n)

RECURSIVE SortedSeq(_)
SortedSeq(S) ==
    IF S = {} THEN << >>
    ELSE LET m == CHOOSE x \in S : \A y \in S : x <= y
         IN  <<m>> \o SortedSeq(S \ {m})

\* position of x in the sequence s of distinct values (Index.get_loc), 0 if absent
GetLoc(s, x) ==
    IF x \in Range(s) THEN CHOOSE i \in DOMAIN s : s[i] = x ELSE 0

RECURSIVE ISqrtFrom(_, _)
ISqrtFrom(x, lo) == IF (lo + 1) * (lo + 1) > x THEN lo ELSE ISqrtFrom(x, lo + 1)

RECURSIVE ISqrtBin(_, _, _)
ISqrtBin(x, lo, hi) ==
    IF hi - lo <= 1 THEN ISqrtFrom(x, lo)
    ELSE LET mid == (lo + hi) \div 2
         IN  IF mid * mid <= x THEN ISqrtBin(x, mid, hi) ELSE ISqrtBin(x, lo, mid)

ISqrt(x) == ISqrtBin(x, 0, SimScale + 1)

\* every order of the positions S by non-decreasing key (an unstable sort)
RECURSIVE AscOrders(_, _)
AscOrders(key, S) ==
    IF S = {} THEN {<< >>}
    ELSE UNION { { <<i>> \o rest : rest \in AscOrders(key, S \ {i}) } :
                 i \in {j \in S : \A l \in S : key[j] <= key[l]} }

\* np.argsort(v): positions of v by ascending value, ties in any order
argsort(v) == AscOrders(v, DOMAIN v)

\* stable insertion of row x into rows already sorted by (k1 desc, k2 desc)
RECURSIVE InsertDesc(_, _)
InsertDesc(sorted, x) ==
    IF sorted = << >> THEN <<x>>
    ELSE LET h == Head(sorted)
         IN  IF h.k1 > x.k1 \/ (h.k1 = x.k1 /\ h.k2 >= x.k2)
             THEN <<h>> \o InsertDesc(Tail(sorted), x)
             ELSE <<x>> \o sorted

\* stable sort of rows [k1, k2, ...] by k1 descending, then k2 descending
RECURSIVE StableSortDesc(_)
StableSortDesc(rows) ==
    IF rows = << >> THEN << >>
    ELSE InsertDesc(StableSortDesc(SubSeq(rows, 1, Len(rows) - 1)), rows[Len(rows)])

\* ------------------------------------------------------------ record sets
\* users.csv holds users 1..3; restaurants.csv holds restaurants 1..3.
\* User 4 and restaurant 4 occur only in rating events (identifiers that the
\* Users / Restaurants record sets do not hold).
KnownUsers == 1..3
QueryUsers == 1..4
KnownRestaurants == 1..3
QueryRestaurants == 1..4

Ev(u, r, x) == [user_id |-> u, restaurant_id |-> r, rating |-> x]

\* the rating events of one user in user_history.csv
EventsOf(u, c) ==
    CASE c = "none"  -> << >>
      [] c = "A"     -> <<Ev(u, 1, 5), Ev(u, 2, 3)>>
      [] c = "B"     -> <<Ev(u, 1, 4), Ev(u, 3, 5)>>
      [] c = "C"     -> <<Ev(u, 2, 2), Ev(u, 3, 4)>>
      [] c = "E"     -> <<Ev(u, 1, 5), Ev(u, 2, 5)>>
      [] c = "only3" -> <<Ev(u, 3, 4)>>
      [] c = "twice" -> <<Ev(u, 2, 5), Ev(u, 2, 3)>>
      [] c = "stray" -> <<Ev(u, 1, 4), Ev(u, 4, 5)>>
      [] c = "zero"  -> <<Ev(u, 3, 0)>>

Histories ==
    { EventsOf(1, c1) \o EventsOf(2, c2) \o EventsOf(3, c3) \o EventsOf(4, c4) :
        c1 \in {"none", "A", "E", "only3"}, c2 \in {"none", "A", "B"},
        c3 \in {"none", "C", "twice"}, c4 \in {"none", "stray"} }

\* user_history.csv with rating events of 0 stars: read_csv accepts any
\* number, and the pivot then has rows and columns that are all zero
ZeroRatingHistories ==
    { h \in { EventsOf(1, c1) \o EventsOf(2, c2) \o EventsOf(3, c3) \o EventsOf(4, c4) :
                c1 \in {"A", "E"}, c2 \in {"none", "B", "zero"},
                c3 \in {"none", "C", "zero"}, c4 \in {"none", "stray"} } :
        \E i \in DOMAIN h : h[i].rating = 0 }

\* the data set of the scenario of the specification
ScenarioHistory == EventsOf(1, "A") \o EventsOf(2, "B") \o EventsOf(3, "C")

Stars(tenths) == (tenths * RatingScale) \div 10

Restaurant(id, cu, lo, pr, avg, cnt) ==
    [restaurant_id |-> id, cuisine |-> cu, location |-> lo, price_range |-> pr,
     avg_rating |-> avg, num_reviews |-> cnt]

RestaurantTables ==
    { << Restaurant(1, "Italian", "Downtown", "$$", Stars(45), 10),
         Restaurant(2, "Italian", "Uptown",   "$",  Stars(45), 20),
         Restaurant(3, "Thai",    "Downtown", "$$", Stars(40), 3) >>,
      << Restaurant(1, "Thai",    "Uptown",   "$",  Stars(40), 10),
         Restaurant(2, "Italian", "Downtown", "$$", Stars(47), 10),
         Restaurant(3, "Italian", "Downtown", "$$", Stars(47), 10) >>,
      << >> }        \* restaurants.csv with its header line only

\* ------------------------------------------------------------ DataLoader
\* mutant: the last event of a pair overwrites the earlier ones
LastRating(evs) == evs[Len(evs)].rating

\* mean of the ratings of the events of one (user, restaurant) pair; the
\* histories above keep every mean integral
Mean(evs) == SeqSum([i \in DOMAIN evs |-> evs[i].rating]) \div Len(evs)

\* pivot_table(index='user_id', columns='restaurant_id', fill_value=0):
\* one row per user_id and one column per restaurant_id that occurs in the
\* events, both ascending; a cell is the mean of its events, 0 without one
get_user_item_matrix(history) ==
    LET idx  == SortedSeq({history[i].user_id : i \in DOMAIN history})
        cols == SortedSeq({history[i].restaurant_id : i \in DOMAIN history})
        Cell(u, r) ==
            LET evs == SelectSeq(history,
                                 LAMBDA e : e.user_id = u /\ e.restaurant_id = r)
            IN  IF evs = << >> THEN 0 ELSE Mean(evs)
    IN  [index   |-> idx,
         columns |-> cols,
         values  |-> [i \in DOMAIN idx |-> [j \in DOMAIN cols |-> Cell(idx[i], cols[j])]]]

\* rows of restaurants_df that pass the given filters, in table order; a
\* filter that is None or empty (falsy) is not applied, min_rating only if > 0
filter_restaurants(table, cuisine, location, price_range, min_rating) ==
    SelectSeq(table, LAMBDA r :
        /\ (cuisine # NoFilter => r.cuisine = cuisine)
        /\ (location # NoFilter => r.location = location)
        /\ (price_range # NoFilter => r.price_range = price_range)
        /\ (min_rating > 0 => r.avg_rating >= min_rating))

\* ------------------------------------------------------ similarity engine
Dot(a, b) == SeqSum([j \in DOMAIN a |-> a[j] * b[j]])

\* mutant: a row without norm counts as parallel to every row
CosineOfZeroNorm(a, b) ==
    IF Dot(a, a) = 0 \/ Dot(b, b) = 0 THEN SimScale
    ELSE ISqrt((Dot(a, b) * SimScale * Dot(a, b) * SimScale) \div (Dot(a, a) * Dot(b, b)))

\* cosine of two rows; sklearn's normalize leaves an all-zero row as it is,
\* so its similarity to every row (itself included) is 0
Cosine(a, b) ==
    LET na == Dot(a, a)
        nb == Dot(b, b)
        d  == Dot(a, b)
    IN  IF na = 0 \/ nb = 0 THEN 0
        ELSE ISqrt((d * SimScale * d * SimScale) \div (na * nb))

\* sklearn.metrics.pairwise.cosine_similarity(X) for X with at least one row
cosine_similarity(X) == [i \in DOMAIN X |-> [j \in DOMAIN X |-> Cosine(X[i], X[j])]]

\* DataFrame.T on the cell values
Transpose(m) ==
    [j \in DOMAIN m.columns |-> [i \in DOMAIN m.index |-> m.values[i][j]]]

\* ------------------------------------------- similarity in floating point
\* cosine_similarity step by step in binary floating point, every operation
\* rounded to nearest, ties to even: normalize divides each row by its
\* Euclidean norm, then the rows are multiplied (X_normalized @ X_normalized.T).
\* A number is m * 2^e with a significand m of MantissaBits bits (float64 has
\* 53), or 0.
Float(m, e) == [m |-> m, e |-> e]
FZero == Float(0, 0)

RECURSIVE Pow2(_)
Pow2(k) == IF k = 0 THEN 1 ELSE 2 * Pow2(k - 1)

RECURSIVE BitLen(_)
BitLen(n) == IF n = 0 THEN 0 ELSE 1 + BitLen(n \div 2)

\* the float nearest to n * 2^e for an integer n > 0; sticky says that the
\* exact value lies above n * 2^e by less than 2^e (n then has at least
\* MantissaBits + 2 bits)
RoundNearestEven(n, e, sticky) ==
    LET len == BitLen(n)
    IN  IF len <= MantissaBits
        THEN Float(n * Pow2(MantissaBits - len), e - (MantissaBits - len))
        ELSE LET s    == len - MantissaBits
                 q    == n \div Pow2(s)
                 r    == n % Pow2(s)
                 half == Pow2(s - 1)
                 up   == r > half \/ (r = half /\ (sticky \/ q % 2 = 1))
                 m    == IF up THEN q + 1 ELSE q
             IN  IF m = Pow2(MantissaBits)
                 THEN Float(Pow2(MantissaBits - 1), e + s + 1)
                 ELSE Float(m, e + s)

FInt(n) == IF n = 0 THEN FZero ELSE RoundNearestEven(n, 0, FALSE)
FOne == FInt(1)

FMul(x, y) ==
    IF x.m = 0 \/ y.m = 0 THEN FZero ELSE RoundNearestEven(x.m * y.m, x.e + y.e, FALSE)

\* x + y for x, y >= 0
FAdd(x, y) ==
    IF x.m = 0 THEN y
    ELSE IF y.m = 0 THEN x
    ELSE LET hi == IF x.e >= y.e THEN x ELSE y
             lo == IF x.e >= y.e THEN y ELSE x
             d  == hi.e - lo.e
         IN  IF d > MantissaBits + 1 THEN hi
             ELSE RoundNearestEven(hi.m * Pow2(d) + lo.m, lo.e, FALSE)

\* x / y for x >= 0, y > 0
FDiv(x, y) ==
    IF x.m = 0 THEN FZero
    ELSE LET num == x.m * Pow2(MantissaBits + 2)
         IN  RoundNearestEven(num \div y.m, x.e - y.e - (MantissaBits + 2), num % y.m # 0)

\* the least k with n * 4^k >= 2^(2 * MantissaBits + 2)
RECURSIVE SqrtScale(_, _)
SqrtScale(n, k) ==
    IF n * Pow2(2 * k) >= Pow2(2 * MantissaBits + 2) THEN k ELSE SqrtScale(n, k + 1)

\* sqrt(n) for an integer n > 0 (a sum of squares of ratings is exact)
FSqrtInt(n) ==
    LET k == SqrtScale(n, 1)
        x == n * Pow2(2 * k)
        r == ISqrtBin(x, 0, Pow2(MantissaBits + 2))
    IN  RoundNearestEven(r, 0 - k, r * r # x)

\* acc + x * y with one rounding (fused multiply-add), for acc, x, y >= 0
FFma(x, y, acc) ==
    IF x.m = 0 \/ y.m = 0 THEN acc
    ELSE LET n == x.m * y.m
             e == x.e + y.e
         IN  IF acc.m = 0 THEN RoundNearestEven(n, e, FALSE)
             ELSE IF acc.e >= e
                  THEN RoundNearestEven(acc.m * Pow2(acc.e - e) + n, e, FALSE)
                  ELSE RoundNearestEven(n * Pow2(e - acc.e) + acc.m, acc.e, FALSE)

\* x < y, x <= y for x, y >= 0
FLess(x, y) ==
    IF y.m = 0 THEN FALSE
    ELSE IF x.m = 0 THEN TRUE
    ELSE x.e < y.e \/ (x.e = y.e /\ x.m < y.m)
FLeq(x, y) == x = y \/ FLess(x, y)

\* sklearn.preprocessing.normalize: a row divided by its norm; a row of
\* zeros is left as it is
FNormalize(v) ==
    LET sq == SeqSum([j \in DOMAIN v |-> v[j] * v[j]])
    IN  IF sq = 0 THEN [j \in DOMAIN v |-> FZero]
        ELSE [j \in DOMAIN v |-> FDiv(FInt(v[j]), FSqrtInt(sq))]

\* The matrix product sums the products of one row pair in an order and with
\* or without fused multiply-add, as the BLAS kernel of the build does.
DotVariants == [backward : BOOLEAN, fused : BOOLEAN]

RECURSIVE FAccumulate(_, _, _, _, _)
FAccumulate(u, v, order, fused, acc) ==
    IF order = << >> THEN acc
    ELSE LET k == Head(order)
         IN  FAccumulate(u, v, Tail(order), fused,
                         IF fused THEN FFma(u[k], v[k], acc)
                         ELSE FAdd(acc, FMul(u[k], v[k])))

FDot(u, v, variant) ==
    LET forward == [k \in 1..Len(u) |-> k]
    IN  FAccumulate(u, v, IF variant.backward THEN Reverse(forward) ELSE forward,
                    variant.fused, FZero)

\* cosine_similarity(X) in floating point under one variant of the product
cosine_similarity_float(X, variant) ==
    LET N == [i \in DOMAIN X |-> FNormalize(X[i])]
    IN  [i \in DOMAIN X |-> [j \in DOMAIN X |-> FDot(N[i], N[j], variant)]]

\* ------------------------------------------------------------ query results
\* A returned DataFrame: the name of its score column and its rows in order,
\* each row a restaurant identifier with the value of the score column.
\* score_column is "avg_rating" for a list of the popularity ranking (it has
\* no predicted_rating column), "none" for pd.DataFrame() and "ValueError"
\* when the query raised.
Result(col, rows) == [score_column |-> col, rows |-> rows]
Row(id, score) == [restaurant_id |-> id, score |-> score]
EmptyFrame == Result("none", << >>)
Raised == Result("ValueError", << >>)

Ids(res) == [i \in DOMAIN res.rows |-> res.rows[i].restaurant_id]

\* every order of the positions S by non-increasing key (an unstable sort)
RECURSIVE DescOrders(_, _)
DescOrders(key, S) ==
    IF S = {} THEN {<< >>}
    ELSE UNION { { <<i>> \o rest : rest \in DescOrders(key, S \ {i}) } :
                 i \in {j \in S : \A l \in S : key[j] >= key[l]} }

\* DataFrame.sort_values(<score column>, ascending=False) on a single key
sort_values_desc(rows) ==
    { [i \in DOMAIN ord |-> rows[ord[i]]] :
        ord \in DescOrders([i \in DOMAIN rows |-> rows[i].score], DOMAIN rows) }

\* mutant: the items are left in insertion order
sorted_in_insertion_order(rows) == rows

\* sorted(d.items(), key=lambda x: x[1], reverse=True): stable
sorted_desc(rows) ==
    LET keyed == [i \in DOMAIN rows |-> [k1 |-> rows[i].score, k2 |-> 0, row |-> rows[i]]]
        st    == StableSortDesc(keyed)
    IN  [i \in DOMAIN st |-> st[i].row]

\* ------------------------------------------------------- popularity ranker
\* mutant: the ranking sorts by avg_rating alone
recommend_by_average_rating_one_key(table, n, cuisine, location, price_range, min_reviews) ==
    LET flt   == filter_restaurants(table, cuisine, location, price_range, 0)
        rs    == SelectSeq(flt, LAMBDA r : r.num_reviews >= min_reviews)
        keyed == [i \in DOMAIN rs |-> [k1 |-> rs[i].avg_rating, k2 |-> 0, row |-> rs[i]]]
        st    == StableSortDesc(keyed)
    IN  Result("avg_rating",
               HeadN([i \in DOMAIN st |-> Row(st[i].row.restaurant_id, st[i].row.avg_rating)], n))

\* mutant: the ranking does not look at min_reviews
recommend_by_average_rating_any_reviews(table, n, cuisine, location, price_range, min_reviews) ==
    LET rs    == filter_restaurants(table, cuisine, location, price_range, 0)
        keyed == [i \in DOMAIN rs |->
                    [k1 |-> rs[i].avg_rating, k2 |-> rs[i].num_reviews, row |-> rs[i]]]
        st    == StableSortDesc(keyed)
    IN  Result("avg_rating",
               HeadN([i \in DOMAIN st |-> Row(st[i].row.restaurant_id, st[i].row.avg_rating)], n))

recommend_by_average_rating(table, n, cuisine, location, price_range, min_reviews) ==
    LET flt   == filter_restaurants(table, cuisine, location, price_range, 0)
        rs    == SelectSeq(flt, LAMBDA r : r.num_reviews >= min_reviews)
        keyed == [i \in DOMAIN rs |->
                    [k1 |-> rs[i].avg_rating, k2 |-> rs[i].num_reviews, row |-> rs[i]]]
        st    == StableSortDesc(keyed)
    IN  Result("avg_rating",
               HeadN([i \in DOMAIN st |-> Row(st[i].row.restaurant_id, st[i].row.avg_rating)], n))

\* recommend_by_average_rating(n=n), the fallback of the predictors
Popular(table, n) ==
    recommend_by_average_rating(table, n, NoFilter, NoFilter, NoFilter, DEFAULT_MIN_REVIEWS)

\* ------------------------------------------------------ user-based predictor
\* np.argsort(user_similarities)[::-1][1:k_neighbors+1] for one argsort order
similar_users_indices(ord, k_neighbors) == Slice(Reverse(ord), 1, k_neighbors + 1)

\* mutant: the weighted sum is not divided by the sum of weights
UserPredictedRatingsUndivided(m, sims, nb) ==
    [j \in DOMAIN m.columns |->
        SeqSum([i \in DOMAIN nb |-> m.values[nb[i]][j] * sims[nb[i]]]) * RatingScale]

\* mutant: the weights of all neighbours are summed, raters or not
UserPredictedRatingsAllWeights(m, sims, nb) ==
    [j \in DOMAIN m.columns |->
        LET weighted_rating == SeqSum([i \in DOMAIN nb |-> m.values[nb[i]][j] * sims[nb[i]]])
            sum_of_weights  == SeqSum([i \in DOMAIN nb |-> sims[nb[i]]])
        IN  IF sum_of_weights # 0
            THEN (weighted_rating * RatingScale) \div sum_of_weights
            ELSE 0]

\* predicted_ratings of every column from the neighbour rows nb
UserPredictedRatings(m, sims, nb) ==
    [j \in DOMAIN m.columns |->
        LET weighted_rating == SeqSum([i \in DOMAIN nb |-> m.values[nb[i]][j] * sims[nb[i]]])
            sum_of_weights  == SeqSum([i \in DOMAIN nb |->
                                  IF m.values[nb[i]][j] > 0 THEN sims[nb[i]] ELSE 0])
        IN  IF sum_of_weights # 0
            THEN (weighted_rating * RatingScale) \div sum_of_weights
            ELSE 0]

\* mutant: rated restaurants are not filtered out
UserRecommendationsAnyColumn(m, user_idx, predicted) ==
    LET cols == SelectSeq([j \in DOMAIN m.columns |-> j], LAMBDA j : predicted[j] > 0)
    IN  [i \in DOMAIN cols |-> Row(m.columns[cols[i]], predicted[cols[i]])]

\* the rows of recommendations_df before sorting: unrated restaurants with a
\* positive prediction, in column order
UserRecommendations(m, user_idx, predicted) ==
    LET unrated == SelectSeq([j \in DOMAIN m.columns |-> j],
                             LAMBDA j : m.values[user_idx][j] = 0 /\ predicted[j] > 0)
    IN  [i \in DOMAIN unrated |-> Row(m.columns[unrated[i]], predicted[unrated[i]])]

\* every outcome [similar_users, result] of the user-based predictor
recommend_collaborative_user_based(m, user_similarity, table, user_id, n, k_neighbors) ==
    LET user_idx == GetLoc(m.index, user_id)
    IN  IF user_idx = 0
        THEN { [similar_users |-> << >>, result |-> Popular(table, n)] }
        ELSE UNION {
               LET nb   == similar_users_indices(ord, k_neighbors)
                   recs == UserRecommendations(m, user_idx,
                              UserPredictedRatings(m, user_similarity[user_idx], nb))
                   who  == [i \in DOMAIN nb |-> m.index[nb[i]]]
               IN  IF recs = << >>
                   THEN { [similar_users |-> who, result |-> Popular(table, n)] }
                   ELSE { [similar_users |-> who,
                           result |-> Result("predicted_rating", HeadN(srt, n))] :
                          srt \in sort_values_desc(recs) }
               : ord \in argsort(user_similarity[user_idx]) }

\* ------------------------------------------------------ item-based predictor
\* mutant: restaurants the user has rated are predicted as well
ItemPredictionsAnyColumn(m, item_similarity, user_idx) ==
    LET ratings == m.values[user_idx]
        cols    == [j \in DOMAIN m.columns |-> j]
        rated   == SelectSeq(cols, LAMBDA j : ratings[j] > 0)
        WSum(u) == SeqSum([i \in DOMAIN rated |->
                      item_similarity[u][rated[i]] * ratings[rated[i]]])
        SSum(u) == SeqSum([i \in DOMAIN rated |-> item_similarity[u][rated[i]]])
        any     == SelectSeq(cols, LAMBDA j : SSum(j) > 0)
    IN  [i \in DOMAIN any |->
            Row(m.columns[any[i]], (WSum(any[i]) * RatingScale) \div SSum(any[i]))]

\* the predictions dict: unrated restaurants with a positive similarity sum,
\* in column order
ItemPredictions(m, item_similarity, user_idx) ==
    LET ratings == m.values[user_idx]
        cols    == [j \in DOMAIN m.columns |-> j]
        rated   == SelectSeq(cols, LAMBDA j : ratings[j] > 0)
        WSum(u) == SeqSum([i \in DOMAIN rated |->
                      IF item_similarity[u][rated[i]] > 0
                      THEN item_similarity[u][rated[i]] * ratings[rated[i]] ELSE 0])
        SSum(u) == SeqSum([i \in DOMAIN rated |->
                      IF item_similarity[u][rated[i]] > 0
                      THEN item_similarity[u][rated[i]] ELSE 0])
        unrated == SelectSeq(cols, LAMBDA j : ratings[j] = 0 /\ SSum(j) > 0)
    IN  [i \in DOMAIN unrated |->
            Row(m.columns[unrated[i]],
                (WSum(unrated[i]) * RatingScale) \div SSum(unrated[i]))]

\* mutant: an empty predictions dict is returned as an empty list
recommend_collaborative_item_based_no_fallback(m, item_similarity, table, user_id, n, k_similar_items) ==
    LET user_idx == GetLoc(m.index, user_id)
    IN  IF user_idx = 0 THEN Popular(table, n)
        ELSE Result("predicted_rating",
                    HeadN(sorted_desc(ItemPredictions(m, item_similarity, user_idx)), n))

recommend_collaborative_item_based(m, item_similarity, table, user_id, n, k_similar_items) ==
    LET user_idx == GetLoc(m.index, user_id)
    IN  IF user_idx = 0 THEN Popular(table, n)
        ELSE IF \A j \in DOMAIN m.columns : m.values[user_idx][j] <= 0
        THEN Popular(table, n)
        ELSE LET predictions == ItemPredictions(m, item_similarity, user_idx)
             IN  IF predictions = << >> THEN Popular(table, n)
                 ELSE Result("predicted_rating", HeadN(sorted_desc(predictions), n))

\* ------------------------------------------------------------ hybrid blender
\* mutant: a later source overwrites the score instead of adding to it
RECURSIVE AccumulateOverwriting(_, _, _)
AccumulateOverwriting(combined, rows, weight) ==
    IF rows = << >> THEN combined
    ELSE LET row   == Head(rows)
             score == row.score * weight
             at    == GetLoc([i \in DOMAIN combined |-> combined[i].restaurant_id],
                             row.restaurant_id)
             next  == IF at = 0
                      THEN Append(combined, Row(row.restaurant_id, score))
                      ELSE [combined EXCEPT ![at].score = score]
         IN  AccumulateOverwriting(next, Tail(rows), weight)

\* combined_scores after the loop over one source list: a dict in insertion order
RECURSIVE Accumulate(_, _, _)
Accumulate(combined, rows, weight) ==
    IF rows = << >> THEN combined
    ELSE LET row   == Head(rows)
             score == row.score * weight
             at    == GetLoc([i \in DOMAIN combined |-> combined[i].restaurant_id],
                             row.restaurant_id)
             next  == IF at = 0
                      THEN Append(combined, Row(row.restaurant_id, 0 + score))
                      ELSE [combined EXCEPT ![at].score = @ + score]
         IN  Accumulate(next, Tail(rows), weight)

combined_scores(user_cf, item_cf, popular, w) ==
    Accumulate(Accumulate(Accumulate(<< >>, user_cf.rows, w[1]), item_cf.rows, w[2]),
               popular.rows, w[3])

Blend(user_cf, item_cf, popular, n, w) ==
    Result("hybrid_score", HeadN(sorted_desc(combined_scores(user_cf, item_cf, popular, w)), n))

\* mutant: each source is asked for n candidates
recommend_hybrid_n_candidates(m, user_similarity, item_similarity, table, user_id, n, w) ==
    { LET src == [user_cf |-> ub.result,
                  item_cf |-> recommend_collaborative_item_based(
                                 m, item_similarity, table, user_id, n, DEFAULT_K_SIMILAR_ITEMS),
                  popular |-> Popular(table, n)]
      IN  [sources |-> src,
           result  |-> Blend(src.user_cf, src.item_cf, src.popular, n, w)] :
      ub \in recommend_collaborative_user_based(
                m, user_similarity, table, user_id, n, DEFAULT_K_NEIGHBORS) }

\* every outcome [sources, result] of the hybrid blender
recommend_hybrid(m, user_similarity, item_similarity, table, user_id, n, w) ==
    { LET src == [user_cf |-> ub.result,
                  item_cf |-> recommend_collaborative_item_based(
                                 m, item_similarity, table, user_id, n * 2, DEFAULT_K_SIMILAR_ITEMS),
                  popular |-> Popular(table, n * 2)]
      IN  [sources |-> src,
           result  |-> Blend(src.user_cf, src.item_cf, src.popular, n, w)] :
      ub \in recommend_collaborative_user_based(
                m, user_similarity, table, user_id, n * 2, DEFAULT_K_NEIGHBORS) }

\* --------------------------------------------------------- similarity lookup
\* np.argsort(similarities)[::-1][1:n+1] for one argsort order
similar_indices(ord, n) == Slice(Reverse(ord), 1, n + 1)

\* every outcome of get_similar_restaurants for a restaurant that is a column
get_similar_restaurants(m, item_similarity, table, restaurant_id, n) ==
    LET item_idx == GetLoc(m.columns, restaurant_id)
    IN  IF item_idx = 0 THEN { EmptyFrame }
        ELSE UNION {
               LET idx  == similar_indices(ord, n)
                   ids  == {m.columns[idx[i]] : i \in DOMAIN idx}
                   keep == SelectSeq(table, LAMBDA r : r.restaurant_id \in ids)
                   rows == [i \in DOMAIN keep |->
                              Row(keep[i].restaurant_id,
                                  item_similarity[item_idx][GetLoc(m.columns, keep[i].restaurant_id)])]
               IN  { Result("similarity_score", srt) : srt \in sort_values_desc(rows) }
               : ord \in argsort(item_similarity[item_idx]) }

\* ------------------------------------------------------------------- state
VARIABLES
    restaurants_df,     \* DataLoader.restaurants_df: rows of restaurants.csv
    users_df,           \* DataLoader.users_df: the user identifiers of users.csv
    history_df,         \* DataLoader.history_df: the rating events
    user_item_matrix,   \* RestaurantRecommender.user_item_matrix (Optional)
    user_similarity,    \* RestaurantRecommender.user_similarity (Optional)
    item_similarity,    \* RestaurantRecommender.item_similarity (Optional)
    call,               \* the last query and its arguments
    result,             \* what the last query returned
    similar_users,      \* user-based query: the users of similar_users_indices
    sources,            \* hybrid query: user_cf, item_cf, popular
    threads             \* concurrent sessions: each one's query and position in it

vars == <<restaurants_df, users_df, history_df, user_item_matrix, user_similarity,
          item_similarity, call, result, similar_users, sources, threads>>

loader == <<restaurants_df, users_df, history_df>>

Call(op, user_id, restaurant_id, n, k, w, f, min_reviews) ==
    [op |-> op, user_id |-> user_id, restaurant_id |-> restaurant_id, n |-> n, k |-> k,
     weights |-> w, cuisine |-> f[1], location |-> f[2], price_range |-> f[3],
     min_reviews |-> min_reviews]

NoFilters == <<NoFilter, NoFilter, NoFilter>>
NoWeights == <<0, 0, 0>>
NoCall == Call("none", 0, 0, 0, 0, NoWeights, NoFilters, 0)
NoSources == [user_cf |-> EmptyFrame, item_cf |-> EmptyFrame, popular |-> EmptyFrame]

\* arguments the queries are called with
Ns == 0..MaxN
Ks == 1..MaxK
FilterChoices ==
    { NoFilters, <<"Italian", NoFilter, NoFilter>>, <<NoFilter, "Downtown", NoFilter>>,
      <<NoFilter, NoFilter, "$$">>, <<"Thai", "Uptown", "$">> }
MinReviewsChoices == {0, DEFAULT_MIN_REVIEWS, 1000}
WeightChoices == { DefaultWeights, NoWeights, <<1, 0, 3>> }

\* The sessions of the app: get_recommender is a cached resource, so every
\* session's script thread calls the same engine.
Sessions == {"session1", "session2"}

\* one session's script thread: its query, its position in it, the memoizing
\* methods it has still to call, and the locals user_cf, item_cf and result
Thread(c, at, todo, user_cf, item_cf, res) ==
    [call |-> c, at |-> at, todo |-> todo, user_cf |-> user_cf, item_cf |-> item_cf,
     result |-> res]

IdleThread == Thread(NoCall, "idle", << >>, EmptyFrame, EmptyFrame, EmptyFrame)

\* the loader has loaded its three files (load_all_data); the engine is new
Init ==
    /\ restaurants_df \in RestaurantTables
    /\ users_df = KnownUsers
    /\ history_df \in Histories
    /\ user_item_matrix = None
    /\ user_similarity = None
    /\ item_similarity = None
    /\ call = NoCall
    /\ result = EmptyFrame
    /\ similar_users = << >>
    /\ sources = NoSources
    /\ threads = [s \in Sessions |-> IdleThread]

\* mutant: the attribute is computed anew on every call
MemoRecomputed(attribute, fresh) == fresh

\* "if self.<attribute> is None: self.<attribute> = <fresh>": the value the
\* attribute holds after the statement
Memo(attribute, fresh) == IF attribute = None THEN fresh ELSE attribute[1]

\* mutant: a matrix that is set is left without rows and columns
BuiltMatrixEmptied ==
    IF user_item_matrix = None THEN get_user_item_matrix(history_df)
    ELSE get_user_item_matrix(<< >>)

\* _build_user_item_matrix: the matrix the engine holds after the call
BuiltMatrix == Memo(user_item_matrix, get_user_item_matrix(history_df))

\* cosine_similarity rejects an array without rows (check_array raises
\* ValueError: "Found array with 0 sample(s)")
HasSamples(X) == X # << >>

\* _calculate_user_similarity, after the matrix is built and when it does not raise
BuiltUserSimilarity(m) == Memo(user_similarity, cosine_similarity(m.values))

\* _calculate_item_similarity, after the matrix is built and when it does not raise
BuiltItemSimilarity(m) == Memo(item_similarity, cosine_similarity(Transpose(m)))

UserSimilarityRaises(m) == user_similarity = None /\ ~HasSamples(m.values)
ItemSimilarityRaises(m) == item_similarity = None /\ ~HasSamples(Transpose(m))

\* The engine serves one query at a time (the UI calls it synchronously): a
\* query starts when no call is pending, and Return hands its result over.
Idle == call = NoCall

\* mutant: the filtered rows are assigned to the loader's table
RecommendByAverageRatingFilteringInPlace ==
    \E n \in Ns, f \in FilterChoices, min_reviews \in MinReviewsChoices :
        /\ Idle
        /\ call' = Call("recommend_by_average_rating", 0, 0, n, 0, NoWeights, f, min_reviews)
        /\ result' = recommend_by_average_rating(restaurants_df, n, f[1], f[2], f[3], min_reviews)
        /\ restaurants_df' = filter_restaurants(restaurants_df, f[1], f[2], f[3], 0)
        /\ similar_users' = << >>
        /\ sources' = NoSources
        /\ UNCHANGED <<users_df, history_df, user_item_matrix, user_similarity,
                       item_similarity, threads>>

RecommendByAverageRating ==
    \E n \in Ns, f \in FilterChoices, min_reviews \in MinReviewsChoices :
        /\ Idle
        /\ call' = Call("recommend_by_average_rating", 0, 0, n, 0, NoWeights, f, min_reviews)
        /\ result' = recommend_by_average_rating(restaurants_df, n, f[1], f[2], f[3], min_reviews)
        /\ similar_users' = << >>
        /\ sources' = NoSources
        /\ UNCHANGED <<loader, user_item_matrix, user_similarity, item_similarity, threads>>

RecommendCollaborativeUserBased ==
    \E user_id \in QueryUsers, n \in Ns, k \in Ks :
        LET m == BuiltMatrix
        IN  /\ Idle
            /\ call' = Call("recommend_collaborative_user_based", user_id, 0, n, k,
                            NoWeights, NoFilters, 0)
            /\ user_item_matrix' = Some(m)
            /\ IF UserSimilarityRaises(m)
               THEN /\ result' = Raised
                    /\ similar_users' = << >>
                    /\ UNCHANGED user_similarity
               ELSE LET su == BuiltUserSimilarity(m)
                    IN  /\ user_similarity' = Some(su)
                        /\ \E out \in recommend_collaborative_user_based(
                                         m, su, restaurants_df, user_id, n, k) :
                               /\ result' = out.result
                               /\ similar_users' = out.similar_users
            /\ sources' = NoSources
            /\ UNCHANGED <<loader, item_similarity, threads>>

RecommendCollaborativeItemBased ==
    \E user_id \in QueryUsers, n \in Ns, k \in Ks :
        LET m == BuiltMatrix
        IN  /\ Idle
            /\ call' = Call("recommend_collaborative_item_based", user_id, 0, n, k,
                            NoWeights, NoFilters, 0)
            /\ user_item_matrix' = Some(m)
            /\ IF ItemSimilarityRaises(m)
               THEN /\ result' = Raised
                    /\ UNCHANGED item_similarity
               ELSE LET si == BuiltItemSimilarity(m)
                    IN  /\ item_similarity' = Some(si)
                        /\ result' = recommend_collaborative_item_based(
                                         m, si, restaurants_df, user_id, n, k)
            /\ similar_users' = << >>
            /\ sources' = NoSources
            /\ UNCHANGED <<loader, user_similarity, threads>>

RecommendHybrid ==
    \E user_id \in QueryUsers, n \in Ns, w \in WeightChoices :
        LET m == BuiltMatrix
        IN  /\ Idle
            /\ call' = Call("recommend_hybrid", user_id, 0, n, 0, w, NoFilters, 0)
            /\ user_item_matrix' = Some(m)
            /\ IF UserSimilarityRaises(m)
               THEN /\ result' = Raised
                    /\ sources' = NoSources
                    /\ UNCHANGED <<user_similarity, item_similarity>>
               ELSE LET su == BuiltUserSimilarity(m)
                        si == BuiltItemSimilarity(m)
                    IN  /\ user_similarity' = Some(su)
                        /\ item_similarity' = Some(si)
                        /\ \E out \in recommend_hybrid(
                                         m, su, si, restaurants_df, user_id, n, w) :
                               /\ result' = out.result
                               /\ sources' = out.sources
            /\ similar_users' = << >>
            /\ UNCHANGED <<loader, threads>>

GetSimilarRestaurants ==
    \E restaurant_id \in QueryRestaurants, n \in Ns :
        LET m == BuiltMatrix
        IN  /\ Idle
            /\ call' = Call("get_similar_restaurants", 0, restaurant_id, n, 0,
                            NoWeights, NoFilters, 0)
            /\ user_item_matrix' = Some(m)
            /\ IF ItemSimilarityRaises(m)
               THEN /\ result' = Raised
                    /\ UNCHANGED item_similarity
               ELSE LET si == BuiltItemSimilarity(m)
                    IN  /\ item_similarity' = Some(si)
                        /\ result' \in get_similar_restaurants(
                                          m, si, restaurants_df, restaurant_id, n)
            /\ similar_users' = << >>
            /\ sources' = NoSources
            /\ UNCHANGED <<loader, user_similarity, threads>>

\* the caller takes the result of the finished query
Return ==
    /\ ~Idle
    /\ call' = NoCall
    /\ result' = EmptyFrame
    /\ similar_users' = << >>
    /\ sources' = NoSources
    /\ UNCHANGED <<loader, user_item_matrix, user_similarity, item_similarity, threads>>

Next ==
    \/ RecommendByAverageRating
    \/ RecommendCollaborativeUserBased
    \/ RecommendCollaborativeItemBased
    \/ RecommendHybrid
    \/ GetSimilarRestaurants
    \/ Return

Spec == Init /\ [][Next]_vars

\* The rating events of the loader change while the engine lives: a client
\* assigns DataLoader.history_df between two queries.
LaterHistories ==
    { << >>, ScenarioHistory, EventsOf(1, "E") \o EventsOf(4, "stray") }

HistoryChanges ==
    \E h \in LaterHistories :
        /\ Idle
        /\ h # history_df
        /\ history_df' = h
        /\ UNCHANGED <<restaurants_df, users_df, user_item_matrix, user_similarity,
                       item_similarity, call, result, similar_users, sources, threads>>

NextWithLoaderChange == Next \/ HistoryChanges

SpecLoaderChanges == Init /\ [][NextWithLoaderChange]_vars

\* The two similarity matrices in floating point: _calculate_user_similarity
\* and _calculate_item_similarity on a matrix with at least one rating event,
\* under any variant of the matrix product.
CalculateUserSimilarity ==
    \E variant \in DotVariants :
        LET m == BuiltMatrix
        IN  /\ user_similarity = None
            /\ HasSamples(m.values)
            /\ user_item_matrix' = Some(m)
            /\ user_similarity' = Some(cosine_similarity_float(m.values, variant))
            /\ UNCHANGED <<loader, item_similarity, call, result, similar_users, sources, threads>>

CalculateItemSimilarity ==
    \E variant \in DotVariants :
        LET m == BuiltMatrix
        IN  /\ item_similarity = None
            /\ HasSamples(Transpose(m))
            /\ user_item_matrix' = Some(m)
            /\ item_similarity' = Some(cosine_similarity_float(Transpose(m), variant))
            /\ UNCHANGED <<loader, user_similarity, call, result, similar_users, sources, threads>>

NextFloat == CalculateUserSimilarity \/ CalculateItemSimilarity

SpecFloat == Init /\ [][NextFloat]_vars

\* The same engine on a history file that holds rating events of 0 stars.
InitZeroRatings ==
    /\ restaurants_df \in RestaurantTables
    /\ users_df = KnownUsers
    /\ history_df \in ZeroRatingHistories
    /\ user_item_matrix = None
    /\ user_similarity = None
    /\ item_similarity = None
    /\ call = NoCall
    /\ result = EmptyFrame
    /\ similar_users = << >>
    /\ sources = NoSources
    /\ threads = [s \in Sessions |-> IdleThread]

SpecZeroRatings == InitZeroRatings /\ [][Next]_vars

\* ------------------------------------------------------ concurrent sessions
\* Several sessions query the one engine at once. A thread can be switched
\* between any two statements, so the test "self.<attribute> is None" and the
\* assignment that follows it are separate steps.

\* the queries the sessions make
ConcurrentCalls ==
    { Call("recommend_by_average_rating", 0, 0, MaxN, 0, NoWeights, NoFilters,
           DEFAULT_MIN_REVIEWS),
      Call("recommend_collaborative_user_based", 1, 0, MaxN, MaxK, NoWeights, NoFilters, 0),
      Call("recommend_collaborative_item_based", 1, 0, MaxN, MaxK, NoWeights, NoFilters, 0),
      Call("recommend_hybrid", 1, 0, 1, 0, DefaultWeights, NoFilters, 0),
      Call("get_similar_restaurants", 0, 1, MaxN, 0, NoWeights, NoFilters, 0) }

\* the memoizing methods a query calls, in order: "user" is
\* _calculate_user_similarity, "item" is _calculate_item_similarity
Routines(op) ==
    CASE op = "recommend_collaborative_user_based" -> << "user" >>
      [] op = "recommend_collaborative_item_based" -> << "item" >>
      [] op = "get_similar_restaurants" -> << "item" >>
      [] op = "recommend_hybrid" -> << "user", "item" >>
      [] OTHER -> << >>

\* self.user_similarity or self.item_similarity
Attribute(routine) == IF routine = "user" THEN user_similarity ELSE item_similarity

\* reading an attribute that is None: "'NoneType' object is not subscriptable"
NoneSubscripted == Result("TypeError", << >>)

\* a session starts a query; the popularity ranker touches no attribute of
\* the engine and is one step
StartQuery(s) ==
    \E c \in ConcurrentCalls :
        /\ threads[s].at = "idle"
        /\ threads' = [threads EXCEPT ![s] =
              IF Routines(c.op) = << >>
              THEN Thread(c, "done", << >>, EmptyFrame, EmptyFrame,
                          recommend_by_average_rating(restaurants_df, c.n, c.cuisine,
                              c.location, c.price_range, c.min_reviews))
              ELSE Thread(c, "test_matrix", Routines(c.op), EmptyFrame, EmptyFrame,
                          EmptyFrame)]
        /\ UNCHANGED <<loader, user_item_matrix, user_similarity, item_similarity, call,
                       result, similar_users, sources>>

\* _build_user_item_matrix: "if self.user_item_matrix is None"
TestMatrix(s) ==
    /\ threads[s].at = "test_matrix"
    /\ threads' = [threads EXCEPT ![s].at =
          IF user_item_matrix = None THEN "assign_matrix" ELSE "test_similarity"]
    /\ UNCHANGED <<loader, user_item_matrix, user_similarity, item_similarity, call,
                   result, similar_users, sources>>

\* _build_user_item_matrix: "self.user_item_matrix = ...get_user_item_matrix()"
AssignMatrix(s) ==
    /\ threads[s].at = "assign_matrix"
    /\ user_item_matrix' = Some(get_user_item_matrix(history_df))
    /\ threads' = [threads EXCEPT ![s].at = "test_similarity"]
    /\ UNCHANGED <<loader, user_similarity, item_similarity, call, result, similar_users,
                   sources>>

\* _calculate_<routine>_similarity: "if self.<routine>_similarity is None"
TestSimilarity(s) ==
    /\ threads[s].at = "test_similarity"
    /\ threads' = [threads EXCEPT ![s].at =
          IF Attribute(Head(threads[s].todo)) = None THEN "assign_similarity"
          ELSE "read_similarity"]
    /\ UNCHANGED <<loader, user_item_matrix, user_similarity, item_similarity, call,
                   result, similar_users, sources>>

\* _calculate_<routine>_similarity: the assignment of cosine_similarity(...),
\* which raises on a matrix without rows
AssignSimilarity(s) ==
    LET routine == Head(threads[s].todo)
        m       == user_item_matrix[1]
        X       == IF routine = "user" THEN m.values ELSE Transpose(m)
    IN  /\ threads[s].at = "assign_similarity"
        /\ IF ~HasSamples(X)
           THEN /\ threads' = [threads EXCEPT ![s].at = "done", ![s].result = Raised]
                /\ UNCHANGED <<user_similarity, item_similarity>>
           ELSE /\ threads' = [threads EXCEPT ![s].at = "read_similarity"]
                /\ IF routine = "user"
                   THEN /\ user_similarity' = Some(cosine_similarity(X))
                        /\ UNCHANGED item_similarity
                   ELSE /\ item_similarity' = Some(cosine_similarity(X))
                        /\ UNCHANGED user_similarity
        /\ UNCHANGED <<loader, user_item_matrix, call, result, similar_users, sources>>

\* what a thread holds after the part of its query that follows the call of
\* the memoizing method: the query reads the matrix and the similarity
AfterRead(t) ==
    LET c       == t.call
        m       == user_item_matrix[1]
        routine == Head(t.todo)
    IN  IF Attribute(routine) = None
        THEN { [t EXCEPT !.at = "done", !.result = NoneSubscripted] }
        ELSE CASE c.op = "recommend_collaborative_user_based" ->
                    { [t EXCEPT !.at = "done", !.result = o.result] :
                      o \in recommend_collaborative_user_based(
                               m, user_similarity[1], restaurants_df, c.user_id, c.n, c.k) }
               [] c.op = "recommend_collaborative_item_based" ->
                    { [t EXCEPT !.at = "done",
                                !.result = recommend_collaborative_item_based(
                                    m, item_similarity[1], restaurants_df, c.user_id, c.n, c.k)] }
               [] c.op = "get_similar_restaurants" ->
                    { [t EXCEPT !.at = "done", !.result = r] :
                      r \in get_similar_restaurants(
                               m, item_similarity[1], restaurants_df, c.restaurant_id, c.n) }
               [] c.op = "recommend_hybrid" /\ routine = "user" ->
                    { [t EXCEPT !.at = "test_matrix", !.todo = Tail(t.todo),
                                !.user_cf = o.result] :
                      o \in recommend_collaborative_user_based(
                               m, user_similarity[1], restaurants_df, c.user_id, c.n * 2,
                               DEFAULT_K_NEIGHBORS) }
               [] c.op = "recommend_hybrid" /\ routine = "item" ->
                    LET item_cf == recommend_collaborative_item_based(
                                       m, item_similarity[1], restaurants_df, c.user_id,
                                       c.n * 2, DEFAULT_K_SIMILAR_ITEMS)
                    IN  { [t EXCEPT !.at = "done", !.item_cf = item_cf,
                                    !.result = Blend(t.user_cf, item_cf,
                                                     Popular(restaurants_df, c.n * 2),
                                                     c.n, c.weights)] }

ReadSimilarity(s) ==
    /\ threads[s].at = "read_similarity"
    /\ \E t \in AfterRead(threads[s]) : threads' = [threads EXCEPT ![s] = t]
    /\ UNCHANGED <<loader, user_item_matrix, user_similarity, item_similarity, call,
                   result, similar_users, sources>>

\* the session takes the result of its query
ReturnToSession(s) ==
    /\ threads[s].at = "done"
    /\ threads' = [threads EXCEPT ![s] = IdleThread]
    /\ UNCHANGED <<loader, user_item_matrix, user_similarity, item_similarity, call,
                   result, similar_users, sources>>

NextConcurrent ==
    \E s \in Sessions :
        \/ StartQuery(s)
        \/ TestMatrix(s)
        \/ AssignMatrix(s)
        \/ TestSimilarity(s)
        \/ AssignSimilarity(s)
        \/ ReadSimilarity(s)
        \/ ReturnToSession(s)

\* the record sets the sessions share
ConcurrentHistories == { << >>, ScenarioHistory, EventsOf(1, "A") \o EventsOf(2, "A") }

InitConcurrent == Init /\ history_df \in ConcurrentHistories

SpecConcurrent == InitConcurrent /\ [][NextConcurrent]_vars

\* ------------------------------------------------------------------ claims
Matrix == user_item_matrix[1]
IsRow(user_id) == user_item_matrix # None /\ user_id \in Range(Matrix.index)
IsColumn(restaurant_id) == user_item_matrix # None /\ restaurant_id \in Range(Matrix.columns)
Returned == result.score_column # "ValueError"
RestaurantIdsOf(table) == {table[i].restaurant_id : i \in DOMAIN table}
Details(id) == CHOOSE r \in Range(restaurants_df) : r.restaurant_id = id
HasEvents(user_id) == \E i \in DOMAIN history_df : history_df[i].user_id = user_id
Rating(user_id, restaurant_id) ==
    Matrix.values[GetLoc(Matrix.index, user_id)][GetLoc(Matrix.columns, restaurant_id)]
Predictors == {"recommend_collaborative_user_based", "recommend_collaborative_item_based"}

\* C1: a predictor asked about a user identifier that is no row of the rating
\* matrix does not raise and returns exactly the list of
\* recommend_by_average_rating(n) without filters.
C1_UnknownUserFallsBack ==
    (call.op \in Predictors /\ ~IsRow(call.user_id))
        => (Returned /\ result = Popular(restaurants_df, call.n))

\* C2: for a user without rating events, the identifiers returned by the
\* user-based predictor, the item-based predictor and the hybrid blender are,
\* in order, those of recommend_by_average_rating(n).
C2_ZeroEventUserGetsPopular ==
    (call.op \in Predictors \cup {"recommend_hybrid"} /\ ~HasEvents(call.user_id))
        => (Returned /\ Ids(result) = Ids(Popular(restaurants_df, call.n)))

\* C3: the result of get_similar_restaurants(r, n) never contains r.
C3_NoSelfRecommendation ==
    call.op = "get_similar_restaurants"
        => call.restaurant_id \notin Range(Ids(result))

\* the k users other than the target with the highest similarity to it, ties
\* going to the lower user identifier
TopNeighbours(user_id, k) ==
    LET sims   == user_similarity[1][GetLoc(Matrix.index, user_id)]
        others == SelectSeq(Matrix.index, LAMBDA v : v # user_id)
        keyed  == [i \in DOMAIN others |->
                     [k1 |-> sims[GetLoc(Matrix.index, others[i])], k2 |-> 0,
                      user |-> others[i]]]
        st     == StableSortDesc(keyed)
    IN  HeadN([i \in DOMAIN st |-> st[i].user], k)

\* C4: the neighbours of the user-based predictor are the k_neighbors users
\* other than the target with the highest similarity to it, ties going to the
\* lower user identifier; the target is never its own neighbour.
C4_NeighboursAreTopKOthers ==
    (call.op = "recommend_collaborative_user_based" /\ IsRow(call.user_id))
        => /\ call.user_id \notin Range(similar_users)
           /\ Range(similar_users) = Range(TopNeighbours(call.user_id, call.k))

\* the score a source list gives a restaurant, 0 when the list lacks it
SourceScore(src, id) ==
    SeqSum([i \in DOMAIN src.rows |->
              IF src.rows[i].restaurant_id = id THEN src.rows[i].score ELSE 0])
InSource(src, id) == id \in Range(Ids(src))

\* C5: the hybrid_score of every returned restaurant is the sum over the three
\* source lists (of at most 2n candidates each) that contain it of weight x
\* the score of that list; a list that lacks the restaurant adds 0.
C5_HybridAdditivity ==
    (call.op = "recommend_hybrid" /\ Returned)
        => \A i \in DOMAIN result.rows :
              LET id == result.rows[i].restaurant_id
              IN  /\ result.score_column = "hybrid_score"
                  /\ \A src \in {sources.user_cf, sources.item_cf, sources.popular} :
                        Len(src.rows) <= 2 * call.n
                  /\ result.rows[i].score =
                        call.weights[1] * SourceScore(sources.user_cf, id)
                      + call.weights[2] * SourceScore(sources.item_cf, id)
                      + call.weights[3] * SourceScore(sources.popular, id)

\* a hybrid result with a restaurant that all three sources list, under three
\* positive weights, and a restaurant that some source lacks
C5_Witness ==
    /\ call.op = "recommend_hybrid" /\ Returned
    /\ \A j \in 1..3 : call.weights[j] > 0
    /\ \E i \in DOMAIN result.rows :
          /\ InSource(sources.user_cf, result.rows[i].restaurant_id)
          /\ InSource(sources.item_cf, result.rows[i].restaurant_id)
          /\ InSource(sources.popular, result.rows[i].restaurant_id)
    /\ \E i \in DOMAIN result.rows :
          ~InSource(sources.popular, result.rows[i].restaurant_id)

\* C6: the rating matrix has a row for every user of the Users record set and
\* a column for every restaurant of the Restaurants record set.
C6_MatrixCoversRecordSets ==
    user_item_matrix # None
        => /\ users_df \subseteq Range(Matrix.index)
           /\ RestaurantIdsOf(restaurants_df) \subseteq Range(Matrix.columns)

\* C7: a rating event of an unknown user or an unknown restaurant makes no row
\* and no column, and no restaurant outside the Restaurants record set is
\* ever returned.
C7_UnknownIdentifiersDropped ==
    /\ user_item_matrix # None
          => /\ Range(Matrix.index) \subseteq users_df
             /\ Range(Matrix.columns) \subseteq RestaurantIdsOf(restaurants_df)
    /\ Range(Ids(result)) \subseteq RestaurantIdsOf(restaurants_df)

\* C8 as claimed: the user-based predictor never returns a restaurant that
\* the target user has rated, whether or not a prediction is positive.
C8_NeverReturnsRated ==
    (call.op = "recommend_collaborative_user_based" /\ IsRow(call.user_id) /\ Returned)
        => \A i \in DOMAIN result.rows :
              IsColumn(result.rows[i].restaurant_id)
                  => Rating(call.user_id, result.rows[i].restaurant_id) = 0

\* C8 as amended: when at least one restaurant has a positive prediction (the
\* result carries predicted_rating), the user-based predictor returns no
\* restaurant that the target user has rated.
C8_PredictionsAreUnrated ==
    (call.op = "recommend_collaborative_user_based" /\ IsRow(call.user_id)
       /\ result.score_column = "predicted_rating")
        => \A i \in DOMAIN result.rows :
              /\ IsColumn(result.rows[i].restaurant_id)
              /\ Rating(call.user_id, result.rows[i].restaurant_id) = 0

\* predictions returned to a user who has rated restaurants that the
\* neighbours have rated too
C8_Witness ==
    /\ call.op = "recommend_collaborative_user_based" /\ IsRow(call.user_id)
    /\ result.score_column = "predicted_rating" /\ result.rows # << >>
    /\ \E j \in DOMAIN Matrix.columns :
          /\ Rating(call.user_id, Matrix.columns[j]) > 0
          /\ \E v \in Range(similar_users) :
                v # call.user_id /\ Rating(v, Matrix.columns[j]) > 0

\* C9: on the scenario data set, the user-based predictor for user 1 with two
\* neighbours returns restaurant 3 alone, predicted strictly between 0 and 5.
C9_Scenario ==
    (/\ history_df = ScenarioHistory
     /\ call.op = "recommend_collaborative_user_based"
     /\ call.user_id = 1 /\ call.k = 2 /\ call.n >= 1)
        => /\ result.score_column = "predicted_rating"
           /\ Ids(result) = <<3>>
           /\ result.rows[1].score > 0
           /\ result.rows[1].score < 5 * RatingScale

C9_Witness ==
    /\ history_df = ScenarioHistory
    /\ call.op = "recommend_collaborative_user_based"
    /\ call.user_id = 1 /\ call.k = 2 /\ call.n >= 1
    /\ similar_users = <<2, 3>>

\* restaurant q ranks strictly above restaurant r in the popularity order
RanksAbove(q, r) ==
    \/ q.avg_rating > r.avg_rating
    \/ q.avg_rating = r.avg_rating /\ q.num_reviews > r.num_reviews

Qualifying ==
    { r \in Range(restaurants_df) :
        /\ r.num_reviews >= call.min_reviews
        /\ (call.cuisine # NoFilter => r.cuisine = call.cuisine)
        /\ (call.location # NoFilter => r.location = call.location)
        /\ (call.price_range # NoFilter => r.price_range = call.price_range) }

\* C10: a result of recommend_by_average_rating is ordered by avg_rating
\* descending, then num_reviews descending, has at most n rows, and leaves
\* out no qualifying restaurant that ranks above a returned one.
C10_PopularityOrder ==
    call.op = "recommend_by_average_rating"
        => /\ Len(result.rows) <= call.n
           /\ \A i \in DOMAIN result.rows :
                 result.rows[i].score = Details(result.rows[i].restaurant_id).avg_rating
           /\ \A i, j \in DOMAIN result.rows :
                 i < j => ~RanksAbove(Details(result.rows[j].restaurant_id),
                                      Details(result.rows[i].restaurant_id))
           /\ \A q \in Qualifying :
                 q.restaurant_id \notin Range(Ids(result))
                     => \A i \in DOMAIN result.rows :
                           ~RanksAbove(q, Details(result.rows[i].restaurant_id))

\* two returned restaurants tie on avg_rating and differ in num_reviews, and a
\* qualifying restaurant is left out
C10_Witness ==
    /\ call.op = "recommend_by_average_rating"
    /\ \E i, j \in DOMAIN result.rows :
          /\ i < j
          /\ result.rows[i].score = result.rows[j].score
          /\ Details(result.rows[i].restaurant_id).num_reviews
                > Details(result.rows[j].restaurant_id).num_reviews
    /\ \E q \in Qualifying : q.restaurant_id \notin Range(Ids(result))

\* C11: every restaurant returned by recommend_by_average_rating has at least
\* min_reviews reviews and matches each filter that was given; when no
\* restaurant qualifies the query returns an empty list and does not raise.
C11_FiltersAndEmptyResult ==
    call.op = "recommend_by_average_rating"
        => /\ result.score_column = "avg_rating"
           /\ \A i \in DOMAIN result.rows :
                 \E q \in Qualifying : q.restaurant_id = result.rows[i].restaurant_id
           /\ (Qualifying = {} => result.rows = << >>)

\* min_reviews = 1000 on a table whose restaurants match the given filter and
\* have fewer reviews: the list is empty
C11_Witness ==
    /\ call.op = "recommend_by_average_rating"
    /\ call.min_reviews = 1000 /\ call.n > 0 /\ call.cuisine # NoFilter
    /\ \E r \in Range(restaurants_df) : r.cuisine = call.cuisine
    /\ result = Result("avg_rating", << >>)

\* C12: get_similar_restaurants for a restaurant identifier that is no column
\* of the rating matrix returns the empty result: it does not raise and does
\* not return the popularity ranking.
C12_UnknownRestaurantGivesEmpty ==
    (call.op = "get_similar_restaurants" /\ ~IsColumn(call.restaurant_id))
        => result = EmptyFrame

\* C13: the rating matrix, the user similarity matrix and the item similarity
\* matrix of an engine are each set at most once: no step of any query
\* replaces or modifies one that is set, also after the loader's rating
\* events have changed.
C13_MemoizedOnce ==
    [][ /\ (user_item_matrix # None => user_item_matrix' = user_item_matrix)
        /\ (user_similarity # None => user_similarity' = user_similarity)
        /\ (item_similarity # None => item_similarity' = item_similarity) ]_vars

\* a predictor has answered from the memoized matrices after the rating
\* events of the loader changed
C13_Witness ==
    /\ call.op \in Predictors \cup {"recommend_hybrid", "get_similar_restaurants"}
    /\ user_item_matrix # None /\ user_similarity # None /\ item_similarity # None
    /\ Matrix # get_user_item_matrix(history_df)
    /\ result.rows # << >>

\* the matrices a newly constructed engine computes from the loader
FreshMatrix == get_user_item_matrix(history_df)
FreshUserSimilarity == cosine_similarity(FreshMatrix.values)
FreshItemSimilarity == cosine_similarity(Transpose(FreshMatrix))

\* every result that query c has as the first query of a new engine
FreshOutcomes(c) ==
    LET m == FreshMatrix
    IN  CASE c.op = "recommend_by_average_rating" ->
               { recommend_by_average_rating(restaurants_df, c.n, c.cuisine, c.location,
                                             c.price_range, c.min_reviews) }
          [] c.op = "recommend_collaborative_user_based" ->
               IF ~HasSamples(m.values) THEN { Raised }
               ELSE { o.result : o \in recommend_collaborative_user_based(
                          m, FreshUserSimilarity, restaurants_df, c.user_id, c.n, c.k) }
          [] c.op = "recommend_collaborative_item_based" ->
               IF ~HasSamples(Transpose(m)) THEN { Raised }
               ELSE { recommend_collaborative_item_based(
                          m, FreshItemSimilarity, restaurants_df, c.user_id, c.n, c.k) }
          [] c.op = "recommend_hybrid" ->
               IF ~HasSamples(m.values) THEN { Raised }
               ELSE { o.result : o \in recommend_hybrid(
                          m, FreshUserSimilarity, FreshItemSimilarity, restaurants_df,
                          c.user_id, c.n, c.weights) }
          [] c.op = "get_similar_restaurants" ->
               IF ~HasSamples(Transpose(m)) THEN { Raised }
               ELSE get_similar_restaurants(m, FreshItemSimilarity, restaurants_df,
                                            c.restaurant_id, c.n)

InTable(id) == id \in RestaurantIdsOf(restaurants_df)

\* restaurant q comes before restaurant r under the tie-break key: review
\* count descending, then restaurant identifier ascending
TieBreakBefore(q, r) ==
    \/ q.num_reviews > r.num_reviews
    \/ q.num_reviews = r.num_reviews /\ q.restaurant_id < r.restaurant_id

\* C15: in a result of the user-based predictor, the item-based predictor or
\* the hybrid blender, two restaurants with the same score stand in the order
\* of the tie-break key (review count descending, then identifier ascending).
C15_TiesFollowTieBreakKey ==
    (call.op \in Predictors \cup {"recommend_hybrid"} /\ Returned)
        => \A i, j \in DOMAIN result.rows :
              (/\ i < j
               /\ result.rows[i].score = result.rows[j].score
               /\ InTable(result.rows[i].restaurant_id)
               /\ InTable(result.rows[j].restaurant_id))
                  => TieBreakBefore(Details(result.rows[i].restaurant_id),
                                    Details(result.rows[j].restaurant_id))

\* C16: no step of any query changes the Restaurants, Users or Rating Event
\* record sets that the data loader holds.
C16_LoaderUnchanged == [][loader' = loader]_vars

\* a filtered ranking that leaves restaurants of the table out has been
\* returned by an engine that has built its matrices
C16_Witness ==
    /\ call.op = "recommend_by_average_rating" /\ call.cuisine # NoFilter
    /\ result.rows # << >> /\ Len(result.rows) < Len(restaurants_df)
    /\ call.n > Len(result.rows)
    /\ user_item_matrix # None /\ user_similarity # None /\ item_similarity # None

\* the similarity matrix S of the rows X: every entry in [0, 1], S symmetric,
\* and 1 on the diagonal for every row that is not all zeros
SimilarityProperties(S, X) ==
    \A i, j \in DOMAIN S :
        /\ FLeq(FZero, S[i][j])
        /\ FLeq(S[i][j], FOne)
        /\ S[i][j] = S[j][i]
        /\ (i = j /\ \E k \in DOMAIN X[i] : X[i][k] # 0) => S[i][i] = FOne

\* C17: for all rows a, b and all columns a, b of the rating matrix,
\* 0 <= similarity(a, b) <= 1, similarity(a, b) = similarity(b, a), and
\* similarity(a, a) = 1 when a is not the zero vector.
C17_SimilarityBounds ==
    /\ user_similarity # None => SimilarityProperties(user_similarity[1], Matrix.values)
    /\ item_similarity # None => SimilarityProperties(item_similarity[1], Transpose(Matrix))

\* similarity of the target of the call and user v, as memoized
SimilarityToTarget(v) ==
    user_similarity[1][GetLoc(Matrix.index, call.user_id)][GetLoc(Matrix.index, v)]

\* the selected neighbours that rated restaurant id
Raters(id) == SelectSeq(similar_users, LAMBDA v : Rating(v, id) > 0)

Numerator(id) ==
    SeqSum([i \in DOMAIN Raters(id) |->
              SimilarityToTarget(Raters(id)[i]) * Rating(Raters(id)[i], id)])
Denominator(id) ==
    SeqSum([i \in DOMAIN Raters(id) |-> SimilarityToTarget(Raters(id)[i])])

\* C18: a predicted rating of the user-based predictor is the sum of
\* similarity x rating over the selected neighbours that rated the restaurant,
\* divided by the sum of the similarities of those neighbours; a restaurant
\* with denominator 0 is not in the result.
C18_UserBasedPrediction ==
    (call.op = "recommend_collaborative_user_based"
       /\ result.score_column = "predicted_rating")
        => \A i \in DOMAIN result.rows :
              LET id == result.rows[i].restaurant_id
              IN  /\ Denominator(id) # 0
                  /\ result.rows[i].score = (Numerator(id) * RatingScale) \div Denominator(id)

\* a returned restaurant was rated by one selected neighbour and not by
\* another, and an unrated restaurant that no selected neighbour rated is
\* left out although n allows more rows
C18_Witness ==
    /\ call.op = "recommend_collaborative_user_based"
    /\ result.score_column = "predicted_rating"
    /\ \E i \in DOMAIN result.rows :
          /\ Len(Raters(result.rows[i].restaurant_id)) = 1
          /\ Len(similar_users) = 2
          /\ \A v \in Range(similar_users) : SimilarityToTarget(v) > 0
    /\ Len(result.rows) < call.n
    /\ \E j \in DOMAIN Matrix.columns :
          /\ Rating(call.user_id, Matrix.columns[j]) = 0
          /\ Denominator(Matrix.columns[j]) = 0

\* similarity of restaurants r and u, as memoized
ItemSimilarityOf(r, u) ==
    item_similarity[1][GetLoc(Matrix.columns, u)][GetLoc(Matrix.columns, r)]

\* the restaurants the target of the call has rated, with positive
\* similarity to restaurant u
SimilarRated(u) ==
    SelectSeq(Matrix.columns,
              LAMBDA r : Rating(call.user_id, r) > 0 /\ ItemSimilarityOf(r, u) > 0)

WeightedSum(u) ==
    SeqSum([i \in DOMAIN SimilarRated(u) |->
              ItemSimilarityOf(SimilarRated(u)[i], u) * Rating(call.user_id, SimilarRated(u)[i])])
SimilaritySum(u) ==
    SeqSum([i \in DOMAIN SimilarRated(u) |-> ItemSimilarityOf(SimilarRated(u)[i], u)])

\* the unrated restaurants with a non-zero denominator
Predictable ==
    { u \in Range(Matrix.columns) : Rating(call.user_id, u) = 0 /\ SimilaritySum(u) # 0 }

\* C19: for a user with a row in the matrix, a predicted rating of the
\* item-based predictor belongs to a restaurant the user has not rated, whose
\* denominator is not 0, and equals the sum of similarity x rating over the
\* rated restaurants with positive similarity divided by the sum of those
\* similarities; when fewer than n rows are returned, they are all such
\* restaurants.
C19_ItemBasedPrediction ==
    (call.op = "recommend_collaborative_item_based" /\ IsRow(call.user_id)
       /\ result.score_column = "predicted_rating")
        => /\ \A i \in DOMAIN result.rows :
                 LET u == result.rows[i].restaurant_id
                 IN  /\ u \in Predictable
                     /\ result.rows[i].score =
                            (WeightedSum(u) * RatingScale) \div SimilaritySum(u)
           /\ Len(result.rows) < call.n => Range(Ids(result)) = Predictable

\* predictions for a user with two rated restaurants, one of them without
\* similarity to a returned restaurant, and an unrated restaurant left out
\* for its zero denominator
C19_Witness ==
    /\ call.op = "recommend_collaborative_item_based" /\ IsRow(call.user_id)
    /\ result.score_column = "predicted_rating"
    /\ \E i \in DOMAIN result.rows :
          /\ Len(SimilarRated(result.rows[i].restaurant_id)) = 1
          /\ Cardinality({r \in Range(Matrix.columns) : Rating(call.user_id, r) > 0}) = 2
    /\ \E u \in Range(Matrix.columns) :
          Rating(call.user_id, u) = 0 /\ u \notin Predictable
    /\ Len(result.rows) < call.n

\* the unrated restaurants for which the user-based predictor has a positive
\* predicted rating
PositivelyPredicted ==
    { u \in Range(Matrix.columns) :
        /\ Rating(call.user_id, u) = 0
        /\ Denominator(u) # 0
        /\ (Numerator(u) * RatingScale) \div Denominator(u) > 0 }

\* the prediction set of the predictor of the call
PredictionSet ==
    IF call.op = "recommend_collaborative_user_based" THEN PositivelyPredicted
    ELSE Predictable

\* C20: for a user with a row in the matrix, a predictor whose prediction set
\* is empty returns exactly recommend_by_average_rating(n), and a predictor
\* whose prediction set is not empty returns predictions (up to n of them),
\* not the popularity list.
C20_EmptyPredictionFallback ==
    (call.op \in Predictors /\ IsRow(call.user_id))
        => IF PredictionSet = {}
           THEN result = Popular(restaurants_df, call.n)
           ELSE /\ result.score_column = "predicted_rating"
                /\ Len(result.rows) = Min(call.n, Cardinality(PredictionSet))

\* the item-based predictor falls back for a user who has rated every
\* restaurant of the matrix, and the popularity list has rows
C20_Witness ==
    /\ call.op = "recommend_collaborative_item_based" /\ IsRow(call.user_id)
    /\ PredictionSet = {}
    /\ \A u \in Range(Matrix.columns) : Rating(call.user_id, u) > 0
    /\ result.score_column = "avg_rating" /\ result.rows # << >>

\* the predicted rating of restaurant u of the prediction set, for the
\* predictor of the call
PredictedRating(u) ==
    IF call.op = "recommend_collaborative_user_based"
    THEN (Numerator(u) * RatingScale) \div Denominator(u)
    ELSE (WeightedSum(u) * RatingScale) \div SimilaritySum(u)

NonIncreasing(rows) == \A i, j \in DOMAIN rows : i < j => rows[i].score >= rows[j].score
Distinct(seq) == \A i, j \in DOMAIN seq : i # j => seq[i] # seq[j]

\* C21: a list of predictions of the user-based or the item-based predictor
\* has at most n rows, no restaurant twice, non-increasing predicted_rating,
\* and no predicted restaurant that is left out has a strictly higher
\* predicted rating than a returned one.
C21_TopNPredictions ==
    (call.op \in Predictors /\ IsRow(call.user_id) /\ PredictionSet # {})
        => /\ result.score_column = "predicted_rating"
           /\ Len(result.rows) <= call.n
           /\ Distinct(Ids(result))
           /\ NonIncreasing(result.rows)
           /\ \A u \in PredictionSet \ Range(Ids(result)) :
                 \A i \in DOMAIN result.rows : PredictedRating(u) <= result.rows[i].score

\* the item-based predictor returns n = 1 of several predictions, and the
\* one it returns is not the first in column order
C21_Witness ==
    /\ call.op = "recommend_collaborative_item_based" /\ IsRow(call.user_id)
    /\ call.n = 1 /\ Len(result.rows) = 1
    /\ \E u \in PredictionSet :
          /\ u < result.rows[1].restaurant_id
          /\ PredictedRating(u) < result.rows[1].score

\* the accumulated total of a candidate of the hybrid blender
Total(id) ==
      call.weights[1] * SourceScore(sources.user_cf, id)
    + call.weights[2] * SourceScore(sources.item_cf, id)
    + call.weights[3] * SourceScore(sources.popular, id)

Candidates ==
    Range(Ids(sources.user_cf)) \cup Range(Ids(sources.item_cf))
        \cup Range(Ids(sources.popular))

\* C22: the hybrid blender takes from each source what the source returns
\* for 2n, and returns at most n distinct restaurants of the three candidate
\* lists in non-increasing hybrid_score, leaving out no candidate with a
\* strictly higher total than a returned one.
C22_HybridTopN ==
    (call.op = "recommend_hybrid" /\ Returned)
        => /\ sources.user_cf \in
                 { o.result : o \in recommend_collaborative_user_based(
                       Matrix, user_similarity[1], restaurants_df, call.user_id,
                       2 * call.n, DEFAULT_K_NEIGHBORS) }
           /\ sources.item_cf = recommend_collaborative_item_based(
                 Matrix, item_similarity[1], restaurants_df, call.user_id,
                 2 * call.n, DEFAULT_K_SIMILAR_ITEMS)
           /\ sources.popular = Popular(restaurants_df, 2 * call.n)
           /\ result.score_column = "hybrid_score"
           /\ Len(result.rows) = Min(call.n, Cardinality(Candidates))
           /\ Distinct(Ids(result))
           /\ Range(Ids(result)) \subseteq Candidates
           /\ NonIncreasing(result.rows)
           /\ \A id \in Candidates \ Range(Ids(result)) :
                 \A i \in DOMAIN result.rows : Total(id) <= result.rows[i].score

\* a source gives more than n candidates, the blender returns n of them, and
\* a candidate with a strictly lower total is left out
C22_Witness ==
    /\ call.op = "recommend_hybrid" /\ Returned
    /\ call.n > 0 /\ Len(result.rows) = call.n
    /\ Len(sources.popular.rows) > call.n
    /\ sources.user_cf.score_column = "predicted_rating"
    /\ \E id \in Candidates \ Range(Ids(result)) :
          Total(id) < result.rows[Len(result.rows)].score

\* the columns of the rating matrix other than the restaurant of the call
OtherRestaurants == Range(Matrix.columns) \ {call.restaurant_id}

\* C23: for a restaurant r that is a column of the rating matrix,
\* get_similar_restaurants(r, n) returns n restaurants other than r (all the
\* others when they are fewer than n), each with its similarity to r as
\* similarity_score, in non-increasing order, leaving out no other restaurant
\* that is strictly more similar to r than a returned one.
C23_MostSimilarOthers ==
    (call.op = "get_similar_restaurants" /\ IsColumn(call.restaurant_id) /\ Returned)
        => /\ Range(Ids(result)) \subseteq OtherRestaurants
           /\ Len(result.rows) = Min(call.n, Cardinality(OtherRestaurants))
           /\ Distinct(Ids(result))
           /\ \A i \in DOMAIN result.rows :
                 result.rows[i].score =
                     ItemSimilarityOf(call.restaurant_id, result.rows[i].restaurant_id)
           /\ NonIncreasing(result.rows)
           /\ \A u \in OtherRestaurants \ Range(Ids(result)) :
                 \A i \in DOMAIN result.rows :
                     ItemSimilarityOf(call.restaurant_id, u) <= result.rows[i].score

\* the sets of the k rated restaurants most similar to u (all of them when
\* they are fewer than k)
MostSimilarRated(u, k) ==
    LET all == Range(SimilarRated(u))
    IN  { T \in SUBSET all :
            /\ Cardinality(T) = Min(k, Cardinality(all))
            /\ \A r \in T, q \in all \ T : ItemSimilarityOf(r, u) >= ItemSimilarityOf(q, u) }

\* the prediction for u from the rated restaurants T
PredictionFrom(T, u) ==
    LET rs == SelectSeq(Matrix.columns, LAMBDA r : r \in T)
    IN  (SeqSum([i \in DOMAIN rs |-> ItemSimilarityOf(rs[i], u) * Rating(call.user_id, rs[i])])
            * RatingScale)
        \div SeqSum([i \in DOMAIN rs |-> ItemSimilarityOf(rs[i], u)])

\* C24: a predicted rating of the item-based predictor is computed from the
\* k_similar_items rated restaurants most similar to the predicted one, and
\* from no others.
C24_LimitedToKSimilarItems ==
    (call.op = "recommend_collaborative_item_based" /\ IsRow(call.user_id)
       /\ result.score_column = "predicted_rating")
        => \A i \in DOMAIN result.rows :
              \E T \in MostSimilarRated(result.rows[i].restaurant_id, call.k) :
                  result.rows[i].score = PredictionFrom(T, result.rows[i].restaurant_id)


\* a step of session s assigns the rating matrix
AssignsMatrix(s) ==
    threads[s].at = "assign_matrix" /\ threads'[s].at = "test_similarity"

\* a step of session s assigns the similarity matrix of its current routine
AssignsSimilarity(s) ==
    threads[s].at = "assign_similarity" /\ threads'[s].at = "read_similarity"

\* a step of session s reads the similarity matrix of its current routine
ReadsSimilarity(s) ==
    threads[s].at = "read_similarity" /\ threads'[s] # threads[s]

\* C25: when several queries run concurrently on one shared engine, in every
\* interleaving a step assigns a memoized matrix (rating matrix, user
\* similarity, item similarity) only while it is unset, and a step reads a
\* similarity matrix only when it is set.
C25_AssignedOnceNeverReadUnset ==
    [][ \A s \in Sessions :
          /\ AssignsMatrix(s) => user_item_matrix = None
          /\ AssignsSimilarity(s) => Attribute(Head(threads[s].todo)) = None
          /\ ReadsSimilarity(s) => Attribute(Head(threads[s].todo)) # None ]_vars


\* the rows and the columns of the rating matrix that are all zero
ZeroRows == { i \in DOMAIN Matrix.index : \A j \in DOMAIN Matrix.columns : Matrix.values[i][j] = 0 }
ZeroColumns == { j \in DOMAIN Matrix.columns : \A i \in DOMAIN Matrix.index : Matrix.values[i][j] = 0 }

\* some user with positive similarity to the target of the call rated id
HasWeight(id) ==
    \E v \in Range(Matrix.index) : Rating(v, id) > 0 /\ SimilarityToTarget(v) > 0

\* the rows of a frame of predictions that the user-based predictor made
UserBasedRows ==
    IF call.op = "recommend_collaborative_user_based" /\ result.score_column = "predicted_rating"
    THEN result.rows
    ELSE IF call.op = "recommend_hybrid" /\ sources.user_cf.score_column = "predicted_rating"
    THEN sources.user_cf.rows
    ELSE << >>

\* the rows of a frame of predictions that the item-based predictor made
ItemBasedRows ==
    IF ~IsRow(call.user_id) THEN << >>
    ELSE IF call.op = "recommend_collaborative_item_based"
              /\ result.score_column = "predicted_rating"
    THEN result.rows
    ELSE IF call.op = "recommend_hybrid" /\ sources.item_cf.score_column = "predicted_rating"
    THEN sources.item_cf.rows
    ELSE << >>

EventsFor(u, r) ==
    SelectSeq(history_df, LAMBDA e : e.user_id = u /\ e.restaurant_id = r)

RatingsSum(evs) == SeqSum([k \in DOMAIN evs |-> evs[k].rating])

====
